---------------------------- MODULE Spec2Model ----------------------------
(***************************************************************************)
(* A model of the book scraper: the crawl loop of scrape_all_books, the    *)
(* per-article field extraction of parse_book_list_page, the next-link     *)
(* resolution of find_next_page_url and the CSV sink save_books_to_csv.    *)
(*                                                                         *)
(* A Python str is modelled as the sequence of its characters (each a      *)
(* one-character string; "GBP" stands for the single character U+00A3,     *)
(* the pound sign), so that the str methods the code calls are computed    *)
(* character by character.                                                 *)
(***************************************************************************)
EXTENDS Integers, Sequences, FiniteSets, TLC

(* ------------------------------ bounds -------------------------------- *)

\* longest chain of listing pages a modelled site has
MaxPages == 3
\* most articles in a multi-article listing document
MaxArticles == 2
\* most records handed to one save_books_to_csv call
MaxRows == 2
\* most save_books_to_csv calls in one run
MaxSaves == 5

(* ----------------------- Python str operations ------------------------ *)

\* F(x), with x evaluated once and handed to F as a value.
ByValue(F(_), x) == CHOOSE r \in {F(v) : v \in {x}} : TRUE

Whitespace == {" ", "\t", "\n"}

DigitChars == <<"0", "1", "2", "3", "4", "5", "6", "7", "8", "9">>

IsDigit(c) == \E i \in 1..Len(DigitChars) : DigitChars[i] = c

DigitVal(c) == (CHOOSE i \in 1..Len(DigitChars) : DigitChars[i] = c) - 1

\* s.startswith(p)
StartsWith(s, p) == Len(s) >= Len(p) /\ SubSeq(s, 1, Len(p)) = p

\* sub in s
Contains(s, sub) ==
    \E i \in 1..(Len(s) - Len(sub) + 1) : SubSeq(s, i, i + Len(sub) - 1) = sub

\* The operators below walk a string by index rather than by Head and Tail.

\* Whether old occurs in s at index i.
OccursAt(s, i, old) ==
    i + Len(old) - 1 <= Len(s) /\ SubSeq(s, i, i + Len(old) - 1) = old

\* s.replace(old, new) from index i on: every non-overlapping occurrence of
\* old, left to right
RECURSIVE ReplaceFrom(_, _, _, _)
ReplaceFrom(s, i, old, new) ==
    IF i > Len(s) THEN <<>>
    ELSE IF OccursAt(s, i, old) THEN new \o ReplaceFrom(s, i + Len(old), old, new)
         ELSE <<s[i]>> \o ReplaceFrom(s, i + 1, old, new)

\* s.replace(old, new), old not empty
Replace(s, old, new) == ReplaceFrom(s, 1, old, new)

\* How many leading (trailing) characters of s are in chars.
Leading(s, chars) ==
    CHOOSE k \in 0..Len(s) :
        /\ \A j \in 1..k : s[j] \in chars
        /\ k < Len(s) => s[k + 1] \notin chars

Trailing(s, chars) ==
    CHOOSE k \in 0..Len(s) :
        /\ \A j \in 1..k : s[Len(s) + 1 - j] \in chars
        /\ k < Len(s) => s[Len(s) - k] \notin chars

\* s.lstrip(chars): s without its leading characters that are in chars
LStrip(s, chars) == SubSeq(s, Leading(s, chars) + 1, Len(s))

\* s.rstrip(chars): s without its trailing characters that are in chars
RStrip(s, chars) == SubSeq(s, 1, Len(s) - Trailing(s, chars))

\* s.strip()
Strip(s) == LStrip(RStrip(s, Whitespace), Whitespace)

\* s.rsplit(sep, 1)[0] for a one-character sep: the part before the last sep,
\* the whole of s when sep does not occur
RSplitHead(s, sep) ==
    LET k == CHOOSE k \in 0..Len(s) :
                /\ \A j \in 1..k : s[Len(s) + 1 - j] # sep
                /\ k < Len(s) => s[Len(s) - k] = sep
    IN  IF k = Len(s) THEN s ELSE SubSeq(s, 1, Len(s) - k - 1)

(* --------------------------- Python float ----------------------------- *)

\* A float is modelled as an exact decimal m * 10^(-e), kept normalised (no
\* trailing zero in the fraction), so that equal numbers are equal values.
RECURSIVE Normalise(_, _)
Normalise(m, e) ==
    IF e > 0 /\ m % 10 = 0 THEN Normalise(m \div 10, e - 1) ELSE [m |-> m, e |-> e]

FloatZero == [m |-> 0, e |-> 0]

\* The number the first k digits of ds write.
RECURSIVE ToNatUpTo(_, _)
ToNatUpTo(ds, k) ==
    IF k = 0 THEN 0 ELSE 10 * ToNatUpTo(ds, k - 1) + DigitVal(ds[k])

ToNat(ds) == ToNatUpTo(ds, Len(ds))

\* float(t) for a text t without surrounding whitespace: the decimal literals
\* [sign] digits [. digits]; every other text is a ValueError (ok = FALSE)
ParseDecimal(t) ==
    LET signed == t # <<>> /\ Head(t) \in {"+", "-"}
        u == IF signed THEN Tail(t) ELSE t
        dots == {i \in 1..Len(u) : u[i] = "."}
        digs == SelectSeq(u, IsDigit)
        valid == /\ \A i \in 1..Len(u) : IsDigit(u[i]) \/ u[i] = "."
                 /\ Cardinality(dots) <= 1
                 /\ Len(digs) >= 1
        e == IF dots = {} THEN 0 ELSE Len(u) - (CHOOSE i \in dots : TRUE)
        mag == ToNat(digs)
        m == IF signed /\ Head(t) = "-" THEN 0 - mag ELSE mag
    IN  IF valid THEN [ok |-> TRUE, val |-> Normalise(m, e)]
        ELSE [ok |-> FALSE, val |-> FloatZero]

\* float(s): surrounding whitespace is ignored
ParseFloat(s) == ByValue(ParseDecimal, Strip(s))

(* ------------------------- parsed documents --------------------------- *)

\* An element or attribute the markup may lack.
None == [some |-> FALSE, v |-> <<>>]
Some(x) == [some |-> TRUE, v |-> x]

BASE_URL == <<"h","t","t","p","s",":","/","/","b","o","o","k","s",".","t","o","s","c","r","a","p","e",".","c","o","m","/">>

\* The class token select_one(".star-rating") matches on.
StarRating == <<"s","t","a","r","-","r","a","t","i","n","g">>

\* An article.product_pod as the selectors of parse_book_list_page see it:
\*   anchor  whether "h3 a" matches; title, href: that anchor's attributes
\*   price   the text of ".price_color"; avail: the text of ".availability"
\*   rating  the class list of ".star-rating"
Article(anchor, title, href, price, avail, rating) ==
    [anchor |-> anchor, title |-> title, href |-> href,
     price |-> price, avail |-> avail, rating |-> rating]

(* ------------------------ parse_book_list_page ------------------------ *)

ArticleTitle(art) ==
    IF art.anchor /\ art.title.some THEN Strip(art.title.v) ELSE <<"U","N","K","N","O","W","N">>

ArticleHref(art) ==
    IF art.anchor /\ art.href.some THEN art.href.v ELSE <<>>

\* BASE_URL + product_url.lstrip("/")
JoinBase(product_url) == BASE_URL \o LStrip(product_url, {"/"})

ArticleUrlKeepsSlash(art) ==
    BASE_URL \o Replace(ArticleHref(art), <<".",".","/",".",".","/",".",".","/">>, <<"c","a","t","a","l","o","g","u","e","/">>)

ArticleUrl(art) ==
    ByValue(JoinBase, Replace(ArticleHref(art), <<".",".","/",".",".","/",".",".","/">>, <<"c","a","t","a","l","o","g","u","e","/">>))

ArticlePrice(art) ==
    LET raw_price == IF art.price.some THEN Strip(art.price.v) ELSE <<"GBP","0",".","0","0">>
        parsed == ParseFloat(Replace(raw_price, <<"GBP">>, <<>>))
    IN  IF parsed.ok THEN parsed.val ELSE FloatZero

ArticleStockText(art) ==
    IF art.avail.some THEN Strip(art.avail.v) ELSE <<>>

\* "In stock" in stock_text
HasInStock(stock_text) == Contains(stock_text, <<"I","n"," ","s","t","o","c","k">>)

InStock(stock_text) == ByValue(HasInStock, stock_text)

\* for c in classes: if c not in ("star-rating",): rating = c; break
FirstOtherClass(classes) ==
    LET k == Leading(classes, {StarRating})
    IN  IF k = Len(classes) THEN <<"U","n","k","n","o","w","n">> ELSE classes[k + 1]

ArticleRating(art) ==
    IF art.rating.some THEN FirstOtherClass(art.rating.v) ELSE <<"U","n","k","n","o","w","n">>

\* One iteration of the loop body: the Book appended for one article.
ParseArticleCoupled(art) ==
    [title       |-> ArticleTitle(art),
     price_gbp   |-> IF art.anchor THEN ArticlePrice(art) ELSE FloatZero,
     in_stock    |-> InStock(ArticleStockText(art)),
     stock_text  |-> ArticleStockText(art),
     rating      |-> ArticleRating(art),
     product_url |-> ArticleUrl(art)]

ParseArticle(art) ==
    [title       |-> ArticleTitle(art),
     price_gbp   |-> ArticlePrice(art),
     in_stock    |-> InStock(ArticleStockText(art)),
     stock_text  |-> ArticleStockText(art),
     rating      |-> ArticleRating(art),
     product_url |-> ArticleUrl(art)]

\* for art in articles: ... books.append(Book(...)), from the i-th article on
RECURSIVE ParseLoopAborts(_, _, _)
ParseLoopAborts(articles, i, books) ==
    IF i > Len(articles) \/ ~articles[i].price.some THEN books
    ELSE ParseLoopAborts(articles, i + 1, Append(books, ParseArticle(articles[i])))

RECURSIVE ParseLoop(_, _, _)
ParseLoop(articles, i, books) ==
    IF i > Len(articles) THEN books
    ELSE ParseLoop(articles, i + 1, Append(books, ParseArticle(articles[i])))

parse_book_list_page(html) == ParseLoop(html.articles, 1, <<>>)

(* ------------------------- find_next_page_url ------------------------- *)

\* The "li.next a" element as find_next_page_url sees it: whether it exists,
\* and its href attribute.
NoNextLink == [link |-> FALSE, href |-> None]
NextLink(href) == [link |-> TRUE, href |-> href]

Html(articles, next) == [articles |-> articles, next |-> next]

find_next_page_url_from_root(html, current_url) ==
    IF ~html.next.link \/ ~html.next.href.some THEN None
    ELSE LET href == html.next.href.v
             base == RStrip(BASE_URL, {"/"})
         IN  IF StartsWith(href, <<"h","t","t","p">>) THEN Some(href)
             ELSE IF StartsWith(href, <<"/">>) THEN Some(RStrip(BASE_URL, {"/"}) \o href)
             ELSE Some(base \o <<"/">> \o href)

find_next_page_url(html, current_url) ==
    IF ~html.next.link \/ ~html.next.href.some THEN None
    ELSE LET href == html.next.href.v
             base == IF Contains(current_url, <<"c","a","t","a","l","o","g","u","e","/">>)
                     THEN RSplitHead(current_url, "/")
                     ELSE RStrip(BASE_URL, {"/"})
         IN  IF StartsWith(href, <<"h","t","t","p">>) THEN Some(href)
             ELSE IF StartsWith(href, <<"/">>) THEN Some(RStrip(BASE_URL, {"/"}) \o href)
             ELSE Some(base \o <<"/">> \o href)

(* -------------------------- save_books_to_csv ------------------------- *)

\* str(n) for a natural number
RECURSIVE NatStr(_)
NatStr(n) ==
    IF n < 10 THEN <<DigitChars[n + 1]>>
    ELSE NatStr(n \div 10) \o <<DigitChars[(n % 10) + 1]>>

RECURSIVE Pow10(_)
Pow10(e) == IF e = 0 THEN 1 ELSE 10 * Pow10(e - 1)

\* n written with at least w digits
RECURSIVE ZeroPad(_, _)
ZeroPad(ds, w) == IF Len(ds) >= w THEN ds ELSE ZeroPad(<<"0">> \o ds, w)

\* str(x) of a float, as csv.DictWriter writes it: 12.5, 0.0, 0.05
FloatStr(x) ==
    LET mag == IF x.m < 0 THEN 0 - x.m ELSE x.m
        whole == NatStr(mag \div Pow10(x.e))
        frac == IF x.e = 0 THEN <<"0">> ELSE ZeroPad(NatStr(mag % Pow10(x.e)), x.e)
    IN  (IF x.m < 0 THEN <<"-">> ELSE <<>>) \o whole \o <<".">> \o frac

\* str(b) of a bool
BoolStr(b) == IF b THEN <<"T","r","u","e">> ELSE <<"F","a","l","s","e">>

\* list(asdict(books[0]).keys()): the dataclass fields in declaration order
Fieldnames ==
    <<<<"t","i","t","l","e">>, <<"p","r","i","c","e","_","g","b","p">>, <<"i","n","_","s","t","o","c","k">>, <<"s","t","o","c","k","_","t","e","x","t">>, <<"r","a","t","i","n","g">>, <<"p","r","o","d","u","c","t","_","u","r","l">>>>

\* writer.writerow(asdict(book)): one cell per field, in Fieldnames order
CsvRow(book) ==
    <<book.title, FloatStr(book.price_gbp), BoolStr(book.in_stock),
      book.stock_text, book.rating, book.product_url>>

RECURSIVE CsvRows(_)
CsvRows(books) ==
    IF books = <<>> THEN <<>> ELSE <<CsvRow(Head(books))>> \o CsvRows(Tail(books))

\* A file: whether it exists, and its rows.
NoFile == [exists |-> FALSE, rows |-> <<>>]

\* The file after save_books_to_csv(books) when it was old before.
save_books_to_csv_appends(old, books) ==
    IF books = <<>> THEN old
    ELSE [exists |-> TRUE, rows |-> old.rows \o <<Fieldnames>> \o CsvRows(books)]

save_books_to_csv(old, books) ==
    IF books = <<>> THEN old
    ELSE [exists |-> TRUE, rows |-> <<Fieldnames>> \o CsvRows(books)]

(* ------------------------------ inputs -------------------------------- *)

SeqsUpTo(S, n) == UNION {[1..k -> S] : k \in 0..n}

TitleAttrs == {None, Some(<<"T","h","e"," ","G","r","e","a","t"," ","G","a","t","s","b","y">>), Some(<<" "," ","E","m","m","a"," ">>)}

HrefAttrs ==
    {None,
     Some(<<".",".","/",".",".","/",".",".","/","c","a","t","a","l","o","g","u","e","/","g","r","e","a","t","-","g","a","t","s","b","y","_","1","/","i","n","d","e","x",".","h","t","m","l">>),
     Some(<<"e","m","m","a","_","2","/","i","n","d","e","x",".","h","t","m","l">>),
     Some(<<"/","c","a","t","a","l","o","g","u","e","/","e","m","m","a","_","2","/","i","n","d","e","x",".","h","t","m","l">>),
     Some(<<"a","/",".",".","/",".",".","/",".",".","/","b",".","h","t","m","l">>),
     Some(<<".",".","/",".",".","/",".",".","/",".",".","/",".",".","/",".",".","/","c",".","h","t","m","l">>),
     Some(<<"/","/","d",".","h","t","m","l">>)}

PriceTexts == {None, Some(<<"GBP","1","2",".","5","0">>), Some(<<" ","5","1",".","7","7"," ">>), Some(<<"f","r","e","e">>), Some(<<"GBP">>)}

AvailTexts ==
    {None, Some(<<" ","I","n"," ","s","t","o","c","k"," ","(","3"," ","a","v","a","i","l","a","b","l","e",")"," ">>), Some(<<"O","u","t"," ","o","f"," ","s","t","o","c","k">>), Some(<<"i","n"," ","s","t","o","c","k">>)}

RatingClasses ==
    {None,
     Some(<<StarRating>>),
     Some(<<StarRating, <<"F","o","u","r">>>>),
     Some(<<<<"T","h","r","e","e">>, StarRating>>),
     Some(<<StarRating, <<"r","a","t","i","n","g","-","l","g">>>>)}

\* Every article the selectors can tell apart over the texts above; an article
\* without an anchor has neither of the anchor's attributes.
Articles ==
    {Article(TRUE, t, h, p, a, r) :
        t \in TitleAttrs, h \in HrefAttrs, p \in PriceTexts,
        a \in AvailTexts, r \in RatingClasses}
    \cup
    {Article(FALSE, None, None, p, a, r) :
        p \in PriceTexts, a \in AvailTexts, r \in RatingClasses}

Gatsby ==
    Article(TRUE, Some(<<"T","h","e"," ","G","r","e","a","t"," ","G","a","t","s","b","y">>),
            Some(<<".",".","/",".",".","/",".",".","/","c","a","t","a","l","o","g","u","e","/","g","r","e","a","t","-","g","a","t","s","b","y","_","1","/","i","n","d","e","x",".","h","t","m","l">>),
            Some(<<"GBP","1","2",".","5","0">>), Some(<<" ","I","n"," ","s","t","o","c","k"," ","(","3"," ","a","v","a","i","l","a","b","l","e",")"," ">>),
            Some(<<StarRating, <<"F","o","u","r">>>>))

EmmaNoPrice ==
    Article(TRUE, Some(<<" "," ","E","m","m","a"," ">>), Some(<<"e","m","m","a","_","2","/","i","n","d","e","x",".","h","t","m","l">>),
            None, Some(<<"O","u","t"," ","o","f"," ","s","t","o","c","k">>), Some(<<<<"T","h","r","e","e">>, StarRating>>))

BareArticle == Article(FALSE, None, None, None, None, None)

SampleArticles == {Gatsby, EmmaNoPrice, BareArticle}

\* The documents parse_book_list_page is applied to.
ExtractDocs ==
    {Html(<<a>>, NoNextLink) : a \in Articles}
    \cup {Html(s, NoNextLink) : s \in SeqsUpTo(SampleArticles, MaxArticles)}

(* The site: a chain of listing pages laid out as books.toscrape.com lays   *)
(* them out, page 1 at BASE_URL and page i > 1 at catalogue/page-i.html.    *)

PageUrl(i) ==
    IF i = 1 THEN BASE_URL
    ELSE BASE_URL \o <<"c","a","t","a","l","o","g","u","e","/","p","a","g","e","-">> \o NatStr(i) \o <<".","h","t","m","l">>

\* The hrefs by which page i may link to page i + 1: relative to the page,
\* root-relative, or absolute.
LinkHrefs(i) ==
    {IF i = 1 THEN <<"c","a","t","a","l","o","g","u","e","/","p","a","g","e","-","2",".","h","t","m","l">>
              ELSE <<"p","a","g","e","-">> \o NatStr(i + 1) \o <<".","h","t","m","l">>,
     <<"/","c","a","t","a","l","o","g","u","e","/","p","a","g","e","-">> \o NatStr(i + 1) \o <<".","h","t","m","l">>,
     PageUrl(i + 1)}

\* The article lists of the pages: consecutive pages differ, so that the
\* order of the pages shows in the order of the records.
PageArticles == {<<Gatsby, EmmaNoPrice>>, <<BareArticle>>}

\* The last page has no next link, or one that lacks its href.
LastLinks == {NoNextLink, NextLink(None)}

\* The chains of pages i..n, page i holding the articles a and the pages
\* after it holding b and a in turn.
RECURSIVE Chains(_, _, _, _)
Chains(i, n, a, b) ==
    IF i = n THEN {<<Html(a, l)>> : l \in LastLinks}
    ELSE {<<Html(a, NextLink(Some(h)))>> \o rest :
            h \in LinkHrefs(i), rest \in Chains(i + 1, n, b, a)}

Sites ==
    UNION {Chains(1, n, p[1], p[2]) :
             n \in 1..MaxPages,
             p \in {q \in PageArticles \X PageArticles : q[1] # q[2]}}

StartUrls == {BASE_URL, <<>>}

\* The inputs find_next_page_url is applied to.
NavLinks ==
    {NoNextLink, NextLink(None)}
    \cup {NextLink(Some(h)) :
            h \in {<<"p","a","g","e","-","2",".","h","t","m","l">>, <<"c","a","t","a","l","o","g","u","e","/","p","a","g","e","-","2",".","h","t","m","l">>, <<"/","c","a","t","a","l","o","g","u","e","/","p","a","g","e","-","2",".","h","t","m","l">>,
                   <<"h","t","t","p","s",":","/","/","b","o","o","k","s",".","t","o","s","c","r","a","p","e",".","c","o","m","/","c","a","t","a","l","o","g","u","e","/","p","a","g","e","-","2",".","h","t","m","l">>,
                   <<"h","t","t","p",":","/","/","e","x","a","m","p","l","e",".","c","o","m","/","p","2",".","h","t","m","l">>, <<"h","t","t","p","d","-","n","o","t","e","s",".","h","t","m","l">>,
                   <<"f","t","p",":","/","/","m","i","r","r","o","r",".","e","x","a","m","p","l","e","/","p","a","g","e","-","2",".","h","t","m","l">>, <<>>}}

NavUrls ==
    {<<"h","t","t","p","s",":","/","/","b","o","o","k","s",".","t","o","s","c","r","a","p","e",".","c","o","m","/">>,
     <<"h","t","t","p","s",":","/","/","b","o","o","k","s",".","t","o","s","c","r","a","p","e",".","c","o","m","/","i","n","d","e","x",".","h","t","m","l">>,
     <<"h","t","t","p","s",":","/","/","b","o","o","k","s",".","t","o","s","c","r","a","p","e",".","c","o","m","/","c","a","t","a","l","o","g","u","e","/","p","a","g","e","-","1",".","h","t","m","l">>,
     <<"h","t","t","p","s",":","/","/","b","o","o","k","s",".","t","o","s","c","r","a","p","e",".","c","o","m","/","c","a","t","a","l","o","g","u","e","/">>,
     <<"h","t","t","p","s",":","/","/","b","o","o","k","s",".","t","o","s","c","r","a","p","e",".","c","o","m","/","c","a","t","a","l","o","g","u","e","/","c","a","t","e","g","o","r","y","/","b","o","o","k","s","_","1","/","i","n","d","e","x",".","h","t","m","l">>,
     <<"h","t","t","p","s",":","/","/","e","x","a","m","p","l","e",".","o","r","g","/","l","i","s","t">>}

\* The record sequences handed to save_books_to_csv.
SampleBooks == {ParseArticle(a) : a \in SampleArticles}

BookLists == SeqsUpTo(SampleBooks, MaxRows)

(* ------------------------------- state -------------------------------- *)

VARIABLES
    \* scrape_all_books
    site,         \* the pages the server holds, page i at PageUrl(i)
    pc,           \* the position in scrape_all_books
    current_url,
    page_num,
    all_books,    \* the accumulator
    html,         \* the last fetch_page result (None: the fetch failed)
    next_url,     \* the last find_next_page_url result
    fetched,      \* history: the URLs requested, in order
    served,       \* history: the documents the fetches returned, in order
    processed,    \* history: the documents whose records were appended
    failed,       \* history: a fetch failed
    sleeps,       \* history: the number of time.sleep(1) calls
    ops,          \* history: the operations of the current iteration
    \* parse_book_list_page applied to one document
    doc, books,
    \* find_next_page_url applied to one link and URL
    navHtml, navUrl, navOut,
    \* save_books_to_csv applied to one file, call after call
    file, saves, lastBooks, lastWritten

crawlVars == <<site, pc, current_url, page_num, all_books, html, next_url,
               fetched, served, processed, failed, sleeps, ops>>
extractVars == <<doc, books>>
navVars == <<navHtml, navUrl, navOut>>
csvVars == <<file, saves, lastBooks, lastWritten>>
vars == <<crawlVars, extractVars, navVars, csvVars>>

\* A result not computed yet / computed.
Pending == [done |-> FALSE, v |-> <<>>]
Result(x) == [done |-> TRUE, v |-> x]

CrawlIdle ==
    /\ site = <<>> /\ pc = "idle" /\ current_url = <<>> /\ page_num = 1
    /\ all_books = <<>> /\ html = None /\ next_url = None
    /\ fetched = <<>> /\ served = <<>> /\ processed = <<>>
    /\ failed = FALSE /\ sleeps = 0 /\ ops = <<>>

ExtractIdle == doc = Html(<<>>, NoNextLink) /\ books = Pending

NavIdle == navHtml = Html(<<>>, NoNextLink) /\ navUrl = <<>> /\ navOut = Pending

CsvIdle == file = NoFile /\ saves = 0 /\ lastBooks = <<>> /\ lastWritten = None

(* -------------------------- scrape_all_books -------------------------- *)

\* fetch_page(url): the text of the page at url, or None when the request
\* fails (any requests.RequestException: network, timeout, HTTP status).
fetch_page(url) ==
    {None} \cup {Some(site[i]) : i \in {j \in 1..Len(site) : PageUrl(j) = url}}

Init ==
    /\ site \in Sites
    /\ current_url \in StartUrls
    /\ pc = "while"
    /\ page_num = 1
    /\ all_books = <<>>
    /\ html = None /\ next_url = None
    /\ fetched = <<>> /\ served = <<>> /\ processed = <<>>
    /\ failed = FALSE /\ sleeps = 0 /\ ops = <<>>
    /\ ExtractIdle /\ NavIdle /\ CsvIdle

\* while current_url:
ScrapeWhile ==
    /\ pc = "while"
    /\ pc' = IF current_url # <<>> THEN "fetch" ELSE "done"
    /\ ops' = <<>>
    /\ UNCHANGED <<site, current_url, page_num, all_books, html, next_url,
                   fetched, served, processed, failed, sleeps>>
    /\ UNCHANGED <<extractVars, navVars, csvVars>>

\* html = fetch_page(current_url), the fetch succeeding
ScrapeFetchOk ==
    /\ pc = "fetch"
    /\ \E r \in fetch_page(current_url) :
        /\ r.some
        /\ html' = r
        /\ served' = Append(served, r.v)
    /\ fetched' = Append(fetched, current_url)
    /\ ops' = Append(ops, "fetch")
    /\ pc' = "parse"
    /\ UNCHANGED <<site, current_url, page_num, all_books, next_url,
                   processed, failed, sleeps>>
    /\ UNCHANGED <<extractVars, navVars, csvVars>>

\* html = fetch_page(current_url) is None: break
ScrapeFetchFailDiscards ==
    /\ pc = "fetch"
    /\ None \in fetch_page(current_url)
    /\ html' = None
    /\ failed' = TRUE
    /\ fetched' = Append(fetched, current_url)
    /\ ops' = Append(ops, "fetch")
    /\ pc' = "done"
    /\ all_books' = <<>>
    /\ UNCHANGED <<site, current_url, page_num, next_url,
                   served, processed, sleeps>>
    /\ UNCHANGED <<extractVars, navVars, csvVars>>

ScrapeFetchFail ==
    /\ pc = "fetch"
    /\ None \in fetch_page(current_url)
    /\ html' = None
    /\ failed' = TRUE
    /\ fetched' = Append(fetched, current_url)
    /\ ops' = Append(ops, "fetch")
    /\ pc' = "done"
    /\ UNCHANGED <<site, current_url, page_num, all_books, next_url,
                   served, processed, sleeps>>
    /\ UNCHANGED <<extractVars, navVars, csvVars>>

\* books = parse_book_list_page(html); all_books.extend(books)
ScrapeParseOverwrites ==
    /\ pc = "parse"
    /\ all_books' = parse_book_list_page(html.v)
    /\ processed' = Append(processed, html.v)
    /\ ops' = Append(ops, "extract")
    /\ pc' = "navigate"
    /\ UNCHANGED <<site, current_url, page_num, html, next_url,
                   fetched, served, failed, sleeps>>
    /\ UNCHANGED <<extractVars, navVars, csvVars>>

ScrapeParse ==
    /\ pc = "parse"
    /\ all_books' = all_books \o parse_book_list_page(html.v)
    /\ processed' = Append(processed, html.v)
    /\ ops' = Append(ops, "extract")
    /\ pc' = "navigate"
    /\ UNCHANGED <<site, current_url, page_num, html, next_url,
                   fetched, served, failed, sleeps>>
    /\ UNCHANGED <<extractVars, navVars, csvVars>>

\* next_url = find_next_page_url(html, current_url); if not next_url: break
ScrapeNavigate ==
    /\ pc = "navigate"
    /\ LET found == find_next_page_url(html.v, current_url)
       IN  /\ next_url' = found
           /\ pc' = IF found.some /\ found.v # <<>> THEN "advance" ELSE "done"
    /\ ops' = Append(ops, "navigate")
    /\ UNCHANGED <<site, current_url, page_num, all_books, html,
                   fetched, served, processed, failed, sleeps>>
    /\ UNCHANGED <<extractVars, navVars, csvVars>>

\* current_url = next_url
ScrapeAdvance ==
    /\ pc = "advance"
    /\ current_url' = next_url.v
    /\ ops' = Append(ops, "set_url")
    /\ pc' = "incr"
    /\ UNCHANGED <<site, page_num, all_books, html, next_url,
                   fetched, served, processed, failed, sleeps>>
    /\ UNCHANGED <<extractVars, navVars, csvVars>>

\* page_num += 1
ScrapeIncrSkipped ==
    /\ pc = "incr"
    /\ ops' = Append(ops, "incr")
    /\ pc' = "sleep"
    /\ UNCHANGED <<site, current_url, page_num, all_books, html, next_url,
                   fetched, served, processed, failed, sleeps>>
    /\ UNCHANGED <<extractVars, navVars, csvVars>>

ScrapeIncr ==
    /\ pc = "incr"
    /\ page_num' = page_num + 1
    /\ ops' = Append(ops, "incr")
    /\ pc' = "sleep"
    /\ UNCHANGED <<site, current_url, all_books, html, next_url,
                   fetched, served, processed, failed, sleeps>>
    /\ UNCHANGED <<extractVars, navVars, csvVars>>

\* time.sleep(1), then back to the loop test
ScrapeSleep ==
    /\ pc = "sleep"
    /\ sleeps' = sleeps + 1
    /\ ops' = Append(ops, "sleep")
    /\ pc' = "while"
    /\ UNCHANGED <<site, current_url, page_num, all_books, html, next_url,
                   fetched, served, processed, failed>>
    /\ UNCHANGED <<extractVars, navVars, csvVars>>

Next ==
    \/ ScrapeWhile
    \/ ScrapeFetchOk
    \/ ScrapeFetchFail
    \/ ScrapeParse
    \/ ScrapeNavigate
    \/ ScrapeAdvance
    \/ ScrapeIncr
    \/ ScrapeSleep

Spec == Init /\ [][Next]_vars

\* The loop is sequential code: a step that can be taken is taken.
FairSpec == Spec /\ WF_vars(Next)

(* ------------- parse_book_list_page applied to a document ------------- *)

InitExtract ==
    /\ doc \in ExtractDocs
    /\ books = Pending
    /\ CrawlIdle /\ NavIdle /\ CsvIdle

Extract ==
    /\ ~books.done
    /\ books' = Result(parse_book_list_page(doc))
    /\ UNCHANGED <<doc, crawlVars, navVars, csvVars>>

NextExtract == Extract

SpecExtract == InitExtract /\ [][NextExtract]_vars

(* ----------- find_next_page_url applied to a link and a URL ----------- *)

InitNavigate ==
    /\ navHtml \in {Html(<<>>, l) : l \in NavLinks}
    /\ navUrl \in NavUrls
    /\ navOut = Pending
    /\ CrawlIdle /\ ExtractIdle /\ CsvIdle

Navigate ==
    /\ ~navOut.done
    /\ navOut' = Result(find_next_page_url(navHtml, navUrl))
    /\ UNCHANGED <<navHtml, navUrl, crawlVars, extractVars, csvVars>>

NextNavigate == Navigate

SpecNavigate == InitNavigate /\ [][NextNavigate]_vars

(* --------------- save_books_to_csv, call after call ------------------- *)

InitCsv ==
    /\ file = NoFile
    /\ saves = 0
    /\ lastBooks = <<>>
    /\ lastWritten = None
    /\ CrawlIdle /\ ExtractIdle /\ NavIdle

Save ==
    /\ saves < MaxSaves
    /\ \E bs \in BookLists :
        /\ file' = save_books_to_csv(file, bs)
        /\ lastBooks' = bs
        /\ lastWritten' = IF bs # <<>> THEN Some(bs) ELSE lastWritten
    /\ saves' = saves + 1
    /\ UNCHANGED <<crawlVars, extractVars, navVars>>

NextCsv == Save

SpecCsv == InitCsv /\ [][NextCsv]_vars

(* ====================== properties of the crawl ======================= *)

IsPrefix(s, t) == Len(s) <= Len(t) /\ SubSeq(t, 1, Len(s)) = s

\* The records of a document, one per article, in document order.
RecordsOfDoc(d) == [i \in 1..Len(d.articles) |-> ParseArticle(d.articles[i])]

\* The records of a sequence of documents, document after document.
RECURSIVE RecordsOf(_)
RecordsOf(docs) ==
    IF docs = <<>> THEN <<>> ELSE RecordsOfDoc(Head(docs)) \o RecordsOf(Tail(docs))

\* The URLs of the chain's pages, in chain order.
ChainUrls == [i \in 1..Len(site) |-> PageUrl(i)]

\* The crawl was started at the first page of the chain.
StartedAtFirstPage == current_url # <<>>

C1_Safety ==
    StartedAtFirstPage =>
        /\ IsPrefix(fetched, ChainUrls)
        /\ (pc = "done" /\ ~failed) =>
              /\ fetched = ChainUrls
              /\ processed = site
              /\ ~next_url.some
              /\ LET last == RecordsOfDoc(site[Len(site)])
                 IN  SubSeq(all_books, Len(all_books) - Len(last) + 1, Len(all_books))
                        = last

\* C1: on a finite chain of pages whose fetches all succeed, the crawl requests
\* the chain's pages once each, in chain order, and nothing else; it reaches
\* Done; the page without a next link is the last one fetched and its records
\* are extracted.
C1_Theorem == [](C1_Safety) /\ <>(pc = "done")

C1_Witness ==
    /\ pc = "done" /\ ~failed
    /\ Len(site) = 3
    /\ fetched = ChainUrls
    /\ Len(processed) = 3

\* C2: when the fetch of the k-th page fails the crawl is over at once: k
\* requests were made and no more, and the result is exactly the records of
\* pages 1..k-1 (none for k = 1).
C2_Theorem ==
    failed =>
        LET k == Len(fetched)
        IN  /\ pc = "done"
            /\ k = page_num
            /\ IsPrefix(fetched, ChainUrls)
            /\ Len(served) = k - 1
            /\ all_books = RecordsOf(SubSeq(site, 1, k - 1))
            /\ (k = 1 => all_books = <<>>)

C2_Witness ==
    /\ failed
    /\ Len(fetched) = 3
    /\ Len(all_books) >= 2
    /\ pc = "done"

C3_Accumulator ==
    /\ all_books = RecordsOf(processed)
    /\ IsPrefix(processed, served)
    /\ IsPrefix(served, site)

\* C3: the accumulator is always the concatenation, in visit order, of the
\* records of the pages processed so far, each in document order, and a step
\* only ever appends to it.
C3_Theorem == [](C3_Accumulator) /\ [][IsPrefix(all_books, all_books')]_vars

C3_Witness ==
    /\ Len(processed) = 2
    /\ processed[1] # processed[2]
    /\ Len(all_books) = 3

\* The order of the operations of an iteration that goes round the loop.
IterationOrder == <<"fetch", "extract", "navigate", "set_url", "incr", "sleep">>

\* C10 as stated: every iteration whose fetch succeeds runs extract, navigate,
\* set current_url, increment, sleep, also when the navigator returns none, so
\* that at Done the sleeps equal the pages fetched and page_num is one more.
C10_Original ==
    /\ IsPrefix(ops, IterationOrder)
    /\ pc = "done" => (sleeps = Len(served) /\ page_num = Len(served) + 1)

\* C10 as amended: an iteration whose navigator returns a URL runs extract,
\* navigate, set current_url, increment, sleep in this order; one whose
\* navigator returns none ends the loop right after navigate, with no
\* increment and no sleep. At Done after a fetch failure the sleeps equal the
\* pages fetched and page_num is one more; at Done after the last page the
\* sleeps are one fewer than the pages fetched and page_num equals them.
C10_Theorem ==
    /\ IsPrefix(ops, IterationOrder)
    /\ (pc = "while" /\ served # <<>>) =>
          (ops = IterationOrder /\ sleeps = Len(served) /\ page_num = Len(served) + 1)
    /\ (pc = "done" /\ (failed \/ served = <<>>)) =>
          (sleeps = Len(served) /\ page_num = Len(served) + 1)
    /\ (pc = "done" /\ ~failed /\ served # <<>>) =>
          /\ ops = <<"fetch", "extract", "navigate">>
          /\ ~next_url.some
          /\ sleeps = Len(served) - 1
          /\ page_num = Len(served)

C10_Witness ==
    /\ pc = "done" /\ ~failed
    /\ Len(served) = 3
    /\ sleeps = 2
    /\ page_num = 3

(* =================== properties of the extractor ====================== *)

Fields == {"title", "price_gbp", "in_stock", "stock_text", "rating", "product_url"}

\* Two records agree on the fields F.
Agree(r1, r2, F) == \A f \in F : r1[f] = r2[f]

IsText(x) == x \in Seq(STRING)

IsFloat(x) == DOMAIN x = {"m", "e"} /\ x.m \in Int /\ x.e \in Nat

\* The i-th record of the extraction, with the article it was made from.
Extracted(i) == [art |-> doc.articles[i], book |-> books.v[i]]

Extractions == {Extracted(i) : i \in 1..Len(doc.articles)}

\* C4: the extractor returns one record per article, in document order, each
\* the record that article gives when it is alone in its document, whatever
\* the articles lack.
C4_Theorem ==
    books.done =>
        /\ Len(books.v) = Len(doc.articles)
        /\ \A i \in 1..Len(doc.articles) :
              <<books.v[i]>> = parse_book_list_page(Html(<<doc.articles[i]>>, doc.next))

C4_Witness ==
    /\ books.done
    /\ Len(doc.articles) = 2
    /\ doc.articles[1] = BareArticle
    /\ doc.articles[2] = EmmaNoPrice
    /\ Len(books.v) = 2

\* The price texts float() rejects once the pound sign is removed.
Unparsable == {<<"f","r","e","e">>, <<"GBP">>}

\* The article a with one of its source elements replaced.
WithTitle(a, t) == [a EXCEPT !.anchor = TRUE, !.title = t]
WithPrice(a, p) == [a EXCEPT !.price = p]
WithAvail(a, v) == [a EXCEPT !.avail = v]
WithRating(a, c) == [a EXCEPT !.rating = c]

TitleFellBack(a) == ~a.anchor \/ ~a.title.some
PriceFellBack(a) == ~a.price.some \/ a.price.v \in Unparsable
AvailFellBack(a) == ~a.avail.some
RatingFellBack(a) == ~a.rating.some \/ \A i \in 1..Len(a.rating.v) : a.rating.v[i] = StarRating

\* Every field is populated, and an absent source gives the documented default.
C5_Populated(a, r) ==
    /\ DOMAIN r = Fields
    /\ IsText(r.title) /\ IsText(r.stock_text) /\ IsText(r.rating)
    /\ IsText(r.product_url)
    /\ IsFloat(r.price_gbp)
    /\ r.in_stock \in BOOLEAN
    /\ TitleFellBack(a) => r.title = <<"U","N","K","N","O","W","N">>
    /\ PriceFellBack(a) => r.price_gbp = FloatZero
    /\ AvailFellBack(a) => (r.stock_text = <<>> /\ r.in_stock = FALSE)
    /\ RatingFellBack(a) => r.rating = <<"U","n","k","n","o","w","n">>

\* A fallen-back title, price or rating leaves the other fields what they are
\* with that element present.
C5_OthersKept(a, r) ==
    /\ TitleFellBack(a) =>
          \A t \in TitleAttrs \ {None} :
              Agree(r, ParseArticle(WithTitle(a, t)), Fields \ {"title"})
    /\ PriceFellBack(a) =>
          \A p \in PriceTexts \ {None} :
              Agree(r, ParseArticle(WithPrice(a, p)), Fields \ {"price_gbp"})
    /\ RatingFellBack(a) =>
          \A c \in RatingClasses \ {None} :
              Agree(r, ParseArticle(WithRating(a, c)), Fields \ {"rating"})

\* C5 as stated: every field is populated with the documented defaults, and a
\* field that falls back to its default leaves the other five fields equal to
\* what they are when that field is present.
C5_Original ==
    books.done =>
        \A x \in Extractions :
            /\ C5_Populated(x.art, x.book)
            /\ C5_OthersKept(x.art, x.book)
            /\ AvailFellBack(x.art) =>
                  \A v \in AvailTexts \ {None} :
                      /\ Agree(x.book, ParseArticle(WithAvail(x.art, v)),
                               Fields \ {"stock_text"})
                      /\ Agree(x.book, ParseArticle(WithAvail(x.art, v)),
                               Fields \ {"in_stock"})

\* C5 as amended: as stated, except that stock_text and in_stock are both
\* derived from the availability element and fall back together, leaving the
\* other four fields equal to what they are when that element is present.
C5_Theorem ==
    books.done =>
        \A x \in Extractions :
            /\ C5_Populated(x.art, x.book)
            /\ C5_OthersKept(x.art, x.book)
            /\ AvailFellBack(x.art) =>
                  \A v \in AvailTexts \ {None} :
                      Agree(x.book, ParseArticle(WithAvail(x.art, v)),
                            Fields \ {"stock_text", "in_stock"})

C5_Witness ==
    /\ books.done
    /\ Len(doc.articles) = 1
    /\ doc.articles[1] =
          Article(TRUE, None, Some(<<"e","m","m","a","_","2","/","i","n","d","e","x",".","h","t","m","l">>), Some(<<"f","r","e","e">>), None,
                  Some(<<StarRating>>))
    /\ books.v[1] =
          [title |-> <<"U","N","K","N","O","W","N">>, price_gbp |-> FloatZero, in_stock |-> FALSE,
           stock_text |-> <<>>, rating |-> <<"U","n","k","n","o","w","n">>,
           product_url |-> <<"h","t","t","p","s",":","/","/","b","o","o","k","s",".","t","o","s","c","r","a","p","e",".","c","o","m","/","e","m","m","a","_","2","/","i","n","d","e","x",".","h","t","m","l">>]

\* h with every occurrence of "../../../", taken left to right, rewritten to
\* "catalogue/".
RECURSIVE Rewritten(_)
Rewritten(h) ==
    IF h = <<>> THEN <<>>
    ELSE IF StartsWith(h, <<".",".","/",".",".","/",".",".","/">>)
         THEN <<"c","a","t","a","l","o","g","u","e","/">> \o Rewritten(SubSeq(h, Len(<<".",".","/",".",".","/",".",".","/">>) + 1, Len(h)))
         ELSE <<Head(h)>> \o Rewritten(Tail(h))

\* h with "../../../" rewritten to "catalogue/" where h begins with it.
PrefixRewritten(h) ==
    IF StartsWith(h, <<".",".","/",".",".","/",".",".","/">>)
    THEN <<"c","a","t","a","l","o","g","u","e","/">> \o SubSeq(h, Len(<<".",".","/",".",".","/",".",".","/">>) + 1, Len(h))
    ELSE h

\* h without its leading slashes.
RECURSIVE Unslashed(_)
Unslashed(h) == IF h # <<>> /\ Head(h) = "/" THEN Unslashed(Tail(h)) ELSE h

HasHref(a) == a.anchor /\ a.href.some

RatingLabels == {<<"O","n","e">>, <<"T","w","o">>, <<"T","h","r","e","e">>, <<"F","o","u","r">>, <<"F","i","v","e">>}

IsOtherClass(c) == c # StarRating

\* C8: every rating is a star-rating label or "Unknown": the first tag of the
\* rating marker other than the marker tag when that tag is a label, and
\* "Unknown" when the marker is absent or carries no label.
C8_Claim ==
    books.done =>
        \A x \in Extractions :
            LET others == IF x.art.rating.some
                          THEN SelectSeq(x.art.rating.v, IsOtherClass) ELSE <<>>
            IN  /\ x.book.rating \in RatingLabels \cup {<<"U","n","k","n","o","w","n">>}
                /\ x.book.rating =
                      IF others # <<>> /\ Head(others) \in RatingLabels
                      THEN Head(others) ELSE <<"U","n","k","n","o","w","n">>

(* =================== properties of the navigator ====================== *)

Alpha ==
    {"a", "b", "c", "d", "e", "f", "g", "h", "i", "j", "k", "l", "m",
     "n", "o", "p", "q", "r", "s", "t", "u", "v", "w", "x", "y", "z"}

\* u carries a scheme: letters, then a colon.
HasScheme(u) ==
    \E i \in 2..Len(u) : u[i] = ":" /\ \A j \in 1..(i - 1) : u[j] \in Alpha

SiteRoot == <<"h","t","t","p","s",":","/","/","b","o","o","k","s",".","t","o","s","c","r","a","p","e",".","c","o","m">>

\* C6: the navigator returns none iff there is no next link with an href;
\* otherwise an absolute href is returned unchanged, a root-relative one is
\* put after the site root, and any other is resolved against the directory
\* of current_url when that lies under catalogue/, else against the site
\* root; every result is an absolute URL.
C6_Claim ==
    navOut.done =>
        LET link == navHtml.next
            out == navOut.v
            href == link.href.v
        IN  /\ out.some <=> (link.link /\ link.href.some)
            /\ out.some =>
                  /\ HasScheme(out.v)
                  /\ out.v =
                        IF HasScheme(href) THEN href
                        ELSE IF StartsWith(href, <<"/">>) THEN SiteRoot \o href
                        ELSE IF Contains(navUrl, <<"/","c","a","t","a","l","o","g","u","e","/">>)
                             THEN RSplitHead(navUrl, "/") \o <<"/">> \o href
                             ELSE SiteRoot \o <<"/">> \o href

(* ====================== properties of the sink ======================== *)

\* The file that holds the header row and one row per record of bs.
Written(f, bs) ==
    /\ f.exists
    /\ Len(f.rows) = 1 + Len(bs)
    /\ f.rows[1] = <<<<"t","i","t","l","e">>, <<"p","r","i","c","e","_","g","b","p">>, <<"i","n","_","s","t","o","c","k">>, <<"s","t","o","c","k","_","t","e","x","t">>,
                     <<"r","a","t","i","n","g">>, <<"p","r","o","d","u","c","t","_","u","r","l">>>>
    /\ \A i \in 1..Len(bs) : f.rows[i + 1] = CsvRow(bs[i])

\* C9 as stated: after any saves, the file holds the header row and the rows
\* of the most recent call's records, the empty sequence included.
C9_Original == saves > 0 => Written(file, lastBooks)

\* C9 as amended: after any saves, the file holds the header row and the rows
\* of the most recent call that was given at least one record, and nothing of
\* an earlier save; a call given no record leaves the file as it was, and
\* absent when no call was given a record.
C9_Theorem ==
    /\ (saves > 0 /\ lastBooks # <<>>) => lastWritten = Some(lastBooks)
    /\ lastWritten.some => Written(file, lastWritten.v)
    /\ ~lastWritten.some => file = NoFile

C9_Witness ==
    /\ saves = 3
    /\ lastBooks = <<>>
    /\ lastWritten.some
    /\ Len(lastWritten.v) = 1
    /\ Len(file.rows) = 2

=============================================================================
